---- MODULE Spec2Model ----
(***************************************************************************)
(* Model of build.py, the FFTS unified build interface: configuration      *)
(* resolution (defaults, persisted snapshot, presets, wizard), the         *)
(* requirement check, the build phases and the control flow of main().     *)
(* One run of the script is one behaviour; pc is the position in main().   *)
(***************************************************************************)
EXTENDS Integers, Sequences, FiniteSets, TLC

VARIABLES
  args,            \* parsed command line: action, preset, interactive, show_config, clean
  file,            \* build_config.json: [kind, content]
  fsBuild,         \* build directory exists
  fsInstall,       \* install directory exists
  fs0,             \* the two directories as they were when the script started
  pc,              \* position in main()
  current_config,  \* BuildConfig.current_config
  loaded,          \* what load_config returned (kept for comparison)
  system,          \* platform.system() as read by get_default_config
  machine,         \* platform.machine() as read by get_default_config
  warned,          \* load_config printed its warning
  exc,             \* exception that escaped, "none" otherwise
  exitCode,        \* process exit status, -1 while running
  printed,         \* configurations printed by show_config
  req,             \* result of check_requirements: "unchecked", "True", "False"
  phaselog,        \* phases invoked, in order, with their outcome
  cleanlog,        \* calls of clean, with what they attempted
  cmake_args,      \* the -D switches built by the last configure
  success,         \* main's success variable
  wiz,             \* the wizard's local copy `current`
  qi,              \* index of the next yes/no question
  retries,         \* invalid build-type answers so far
  presetlog,       \* calls of apply_preset: name, argument, result, error
  asked            \* the last prompt of a wizard called on its own: question,
                   \* line typed, `current` before it, what save_config did

vars == <<args, file, fsBuild, fsInstall, fs0, pc, current_config, loaded,
          system, machine, warned, exc, exitCode, printed, req, phaselog,
          cleanlog, cmake_args, success, wiz, qi, retries, presetlog,
          asked>>

(***************************************************************************)
(* Bounds                                                                  *)
(***************************************************************************)
MaxCpu == 1        \* os.cpu_count() ranges over None (0) and 1..MaxCpu
MaxRetries == 1    \* invalid answers to the build-type question per run
MaxCalls == 3      \* phase methods called in a row on one BuildSystem
MaxApplies == 3    \* apply_preset called in a row on one BuildConfig

(***************************************************************************)
(* Strings that the code inspects character by character are sequences of  *)
(* one-character strings.                                                  *)
(***************************************************************************)
UpperAlphabet == <<"A","B","C","D","E","F","G","H","I","J","K","L","M",
                   "N","O","P","Q","R","S","T","U","V","W","X","Y","Z">>
LowerAlphabet == <<"a","b","c","d","e","f","g","h","i","j","k","l","m",
                   "n","o","p","q","r","s","t","u","v","w","x","y","z">>

LowerChar(c) ==
  IF \E i \in 1..26 : UpperAlphabet[i] = c
  THEN LowerAlphabet[CHOOSE i \in 1..26 : UpperAlphabet[i] = c]
  ELSE c

\* str.lower()
Lower(s) == [i \in 1..Len(s) |-> LowerChar(s[i])]

\* `sub in s`
Contains(sub, s) ==
  \E i \in 0..(Len(s) - Len(sub)) : SubSeq(s, i + 1, i + Len(sub)) = sub

RECURSIVE LStrip(_)
LStrip(s) == IF s # <<>> /\ Head(s) = " " THEN LStrip(Tail(s)) ELSE s

RECURSIVE RStrip(_)
RStrip(s) ==
  IF s # <<>> /\ s[Len(s)] = " " THEN RStrip(SubSeq(s, 1, Len(s) - 1)) ELSE s

\* str.strip(), for the blank the inputs use
Strip(s) == RStrip(LStrip(s))

(***************************************************************************)
(* BuildConfig                                                             *)
(***************************************************************************)
PresetNames == {"debug", "release", "minimal", "android", "ios"}

presets ==
  [n \in PresetNames |->
     CASE n = "debug" ->
            [k \in {"build_type", "enable_tests", "enable_coverage",
                    "enable_sanitizers", "enable_static", "enable_shared"} |->
               CASE k = "build_type" -> "Debug"
                 [] k = "enable_tests" -> TRUE
                 [] k = "enable_coverage" -> TRUE
                 [] k = "enable_sanitizers" -> TRUE
                 [] k = "enable_static" -> TRUE
                 [] k = "enable_shared" -> FALSE]
       [] n = "release" ->
            [k \in {"build_type", "enable_tests", "enable_coverage",
                    "enable_sanitizers", "enable_static", "enable_shared"} |->
               CASE k = "build_type" -> "Release"
                 [] k = "enable_tests" -> TRUE
                 [] k = "enable_coverage" -> FALSE
                 [] k = "enable_sanitizers" -> FALSE
                 [] k = "enable_static" -> TRUE
                 [] k = "enable_shared" -> TRUE]
       [] n = "minimal" ->
            [k \in {"build_type", "enable_tests", "enable_coverage",
                    "enable_sanitizers", "enable_static", "enable_shared",
                    "disable_dynamic_code"} |->
               CASE k = "build_type" -> "Release"
                 [] k = "enable_tests" -> FALSE
                 [] k = "enable_coverage" -> FALSE
                 [] k = "enable_sanitizers" -> FALSE
                 [] k = "enable_static" -> TRUE
                 [] k = "enable_shared" -> FALSE
                 [] k = "disable_dynamic_code" -> TRUE]
       [] n \in {"android", "ios"} ->
            [k \in {"build_type", "enable_tests", "enable_static",
                    "enable_shared", "enable_neon",
                    "generate_position_independent_code"} |->
               CASE k = "build_type" -> "Release"
                 [] k = "enable_tests" -> FALSE
                 [] k = "enable_static" -> TRUE
                 [] k = "enable_shared" -> FALSE
                 [] k = "enable_neon" -> TRUE
                 [] k = "generate_position_independent_code" -> TRUE]]

\* dict.update on a copy: keys of `over` win, the others keep their value
Update(base, over) ==
  [k \in (DOMAIN base) \cup (DOMAIN over) |->
     IF k \in DOMAIN over THEN over[k] ELSE base[k]]

BoolKeys ==
  {"enable_tests", "enable_examples", "enable_benchmarks",
   "enable_documentation", "enable_coverage", "enable_sanitizers",
   "enable_static", "enable_shared", "enable_neon", "enable_vfp",
   "enable_sse", "enable_sse2", "enable_sse3", "enable_avx", "enable_avx2",
   "disable_dynamic_code", "generate_position_independent_code"}

ConfigKeys ==
  BoolKeys \cup {"build_type", "build_dir", "install_dir", "parallel_jobs"}

\* the literal dict of get_default_config, before the platform rules
BaseConfig(cpu) ==
  [k \in ConfigKeys |->
     CASE k = "build_type" -> "Release"
       [] k = "build_dir" -> "build"
       [] k = "install_dir" -> "install"
       [] k = "parallel_jobs" -> IF cpu # 0 THEN cpu ELSE 1
       [] k \in {"enable_tests", "enable_static", "enable_sse",
                 "enable_sse2", "enable_sse3"} -> TRUE
       [] OTHER -> FALSE]

s_linux == <<"l","i","n","u","x">>
s_darwin == <<"d","a","r","w","i","n">>
s_windows == <<"w","i","n","d","o","w","s">>
s_arm == <<"a","r","m">>
s_aarch64 == <<"a","a","r","c","h","6","4">>
s_x86_64 == <<"x","8","6","_","6","4">>
s_amd64 == <<"a","m","d","6","4">>
s_arm64 == <<"a","r","m","6","4">>

\* get_default_config with the Linux rule looking for "arm" only
get_default_config_arm_only(sys, mach, cpu) ==
  LET sy == Lower(sys)
      ma == Lower(mach)
      config == BaseConfig(cpu)
  IN  IF sy = s_linux
      THEN IF Contains(s_arm, ma)
           THEN [config EXCEPT !["enable_neon"] = TRUE]
           ELSE config
      ELSE IF sy = s_darwin
           THEN [config EXCEPT
                   !["enable_neon"] =
                      IF Contains(s_arm64, ma) THEN TRUE ELSE @,
                   !["generate_position_independent_code"] = TRUE]
           ELSE IF sy = s_windows
                THEN [config EXCEPT !["enable_shared"] = TRUE,
                                    !["enable_static"] = TRUE]
                ELSE config

\* get_default_config; sys and mach are platform.system() and
\* platform.machine() as returned, cpu is os.cpu_count() with 0 for None
get_default_config(sys, mach, cpu) ==
  LET sy == Lower(sys)
      ma == Lower(mach)
      config == BaseConfig(cpu)
  IN  IF sy = s_linux
      THEN IF Contains(s_arm, ma) \/ Contains(s_aarch64, ma)
           THEN [config EXCEPT !["enable_neon"] = TRUE]
           ELSE IF Contains(s_x86_64, ma) \/ Contains(s_amd64, ma)
                THEN [config EXCEPT !["enable_sse"] = TRUE,
                                    !["enable_sse2"] = TRUE,
                                    !["enable_sse3"] = TRUE]
                ELSE config
      ELSE IF sy = s_darwin
           THEN [config EXCEPT
                   !["enable_neon"] =
                      IF Contains(s_arm64, ma) THEN TRUE ELSE @,
                   !["generate_position_independent_code"] = TRUE]
           ELSE IF sy = s_windows
                THEN [config EXCEPT !["enable_shared"] = TRUE,
                                    !["enable_static"] = TRUE]
                ELSE config

\* apply_preset returning the preset's own dict instead of the overlay
apply_preset_replace(cur, preset_name) == presets[preset_name]

\* apply_preset on a known name
apply_preset(cur, preset_name) == Update(cur, presets[preset_name])

\* one call of apply_preset on a BuildConfig whose current_config is cur:
\* `current` is self.current_config once the call is over (the method works on
\* a copy), `result` what it returns, `error` the exception it raises
apply_preset_call(cur, preset_name) ==
  IF preset_name \notin DOMAIN presets
  THEN [name |-> preset_name, before |-> cur, current |-> cur,
        result |-> <<>>, error |-> "ValueError"]
  ELSE [name |-> preset_name, before |-> cur, current |-> cur,
        result |-> apply_preset(cur, preset_name), error |-> "none"]


\* load_config; f.kind is what reading build_config.json runs into, f.content
\* the object json.load returns when it parses, dflt is get_default_config()
load_config(f, dflt) ==
  CASE f.kind = "absent" ->
         [config |-> dflt, warned |-> FALSE, exc |-> "none"]
    [] f.kind \in {"unreadable", "malformed"} ->
         [config |-> dflt, warned |-> TRUE, exc |-> "none"]
    [] f.kind = "undecodable" ->
         [config |-> <<>>, warned |-> FALSE, exc |-> "UnicodeDecodeError"]
    [] f.kind = "valid" ->
         [config |-> f.content, warned |-> FALSE, exc |-> "none"]

(***************************************************************************)
(* BuildSystem                                                             *)
(***************************************************************************)
ShownKeys ==
  {"build_type", "build_dir", "install_dir", "parallel_jobs", "enable_tests",
   "enable_static", "enable_shared", "enable_neon", "enable_vfp",
   "enable_sse", "disable_dynamic_code", "generate_position_independent_code"}

\* show_config: the text printed for each line
show_config(config) ==
  [k \in ShownKeys |->
     IF k \in {"build_type", "build_dir", "install_dir", "parallel_jobs"}
     THEN config[k]
     ELSE IF k = "disable_dynamic_code"
          THEN (IF config[k] THEN "Disabled" ELSE "Enabled")
          ELSE (IF config[k] THEN "Enabled" ELSE "Disabled")]

\* int() of one dot-separated component; -1 stands for a component that is
\* not a number, for which int() raises ValueError
IsInt(c) == c >= 0

\* check_requirements.  cmake = [found, run, line]: line is the first line of
\* `cmake --version` as a sequence of whitespace-separated tokens, each token
\* a sequence of dot-separated components.  comps[i] is what probing
\* compilers[i] gives: "absent", "nonzero" or "ok".
check_requirements(cmake, comps) ==
  IF ~cmake.found THEN FALSE
  ELSE IF cmake.run # "ok" THEN FALSE                      \* CalledProcessError
  ELSE IF Len(cmake.line) < 3 THEN FALSE                   \* IndexError
  ELSE LET version_str == cmake.line[3]
       IN  IF Len(version_str) < 2 THEN FALSE              \* ValueError (unpack)
           ELSE IF ~IsInt(version_str[1]) \/ ~IsInt(version_str[2])
                THEN FALSE                                   \* ValueError (int)
           ELSE LET major == version_str[1]
                    minor == version_str[2]
                IN  IF major < 3 \/ (major = 3 /\ minor < 25) THEN FALSE
                    ELSE \E i \in 1..Len(comps) : comps[i] = "ok"

(***************************************************************************)
(* The environment a run starts in                                         *)
(***************************************************************************)
Actions == {"configure", "build", "test", "install", "clean", "all"}

RawSystems ==
  [linux |-> <<"L","i","n","u","x">>,
   darwin |-> <<"D","a","r","w","i","n">>,
   windows |-> <<"W","i","n","d","o","w","s">>,
   freebsd |-> <<"F","r","e","e","B","S","D">>]

RawMachines ==
  [x86_64 |-> <<"x","8","6","_","6","4">>,
   aarch64 |-> <<"a","a","r","c","h","6","4">>,
   armv7l |-> <<"a","r","m","v","7","l">>,
   arm64 |-> <<"a","r","m","6","4">>,
   AMD64 |-> <<"A","M","D","6","4">>,
   amd64 |-> <<"a","m","d","6","4">>,
   i686 |-> <<"i","6","8","6">>]

\* the hosts get_default_config is run on
Platforms ==
  {<<RawSystems.linux, RawMachines.x86_64>>,
   <<RawSystems.linux, RawMachines.aarch64>>,
   <<RawSystems.linux, RawMachines.armv7l>>,
   <<RawSystems.darwin, RawMachines.arm64>>,
   <<RawSystems.darwin, RawMachines.x86_64>>,
   <<RawSystems.windows, RawMachines.AMD64>>,
   <<RawSystems.freebsd, RawMachines.amd64>>}

\* a snapshot written by an earlier run of the wizard on a Linux x86_64 host
SnapFull ==
  [BaseConfig(4) EXCEPT !["build_type"] = "Debug", !["enable_shared"] = TRUE,
                        !["enable_avx"] = TRUE]

\* a hand-written snapshot that names only some options
SnapPartial ==
  [k \in {"build_type", "build_dir", "install_dir", "parallel_jobs"} |->
     CASE k = "build_type" -> "Debug"
       [] k = "build_dir" -> "build"
       [] k = "install_dir" -> "install"
       [] k = "parallel_jobs" -> 2]

\* the snapshot `{}`
SnapEmpty == [k \in {} |-> TRUE]

Files ==
  {[kind |-> "absent", content |-> <<>>],
   [kind |-> "unreadable", content |-> <<>>],
   [kind |-> "malformed", content |-> <<>>],
   [kind |-> "undecodable", content |-> <<>>],
   [kind |-> "valid", content |-> SnapFull],
   [kind |-> "valid", content |-> SnapPartial],
   [kind |-> "valid", content |-> SnapEmpty]}

\* command lines: every action, preset and flag without the wizard, and the
\* wizard on a few of them (it is started in a tree with no output directories)
Invocations ==
  [action : Actions \cup {"none"},
   preset : PresetNames \cup {"none", "bogus"},
   interactive : {FALSE}, show_config : BOOLEAN, clean : BOOLEAN]
  \cup
  [action : {"none", "build"}, preset : {"none"},
   interactive : {TRUE}, show_config : BOOLEAN, clean : {FALSE}]

CMakeProbes ==
  {[found |-> FALSE, run |-> "ok", line |-> <<>>],
   [found |-> TRUE, run |-> "nonzero", line |-> <<>>],
   [found |-> TRUE, run |-> "ok", line |-> << <<-1>>, <<-1>> >>],
   [found |-> TRUE, run |-> "ok", line |-> << <<-1>>, <<-1>>, <<3>> >>],
   [found |-> TRUE, run |-> "ok", line |-> << <<-1>>, <<-1>>, <<3, -1>> >>],
   [found |-> TRUE, run |-> "ok", line |-> << <<-1>>, <<-1>>, <<2, 8, 12>> >>],
   [found |-> TRUE, run |-> "ok", line |-> << <<-1>>, <<-1>>, <<3, 24, 0>> >>],
   [found |-> TRUE, run |-> "ok", line |-> << <<-1>>, <<-1>>, <<3, 25, 1>> >>],
   [found |-> TRUE, run |-> "ok", line |-> << <<-1>>, <<-1>>, <<4, 0, 2>> >>]}

compilers == <<"gcc", "clang", "cc">>

CompilerProbes ==
  {<<"absent", "absent", "absent">>, <<"ok", "absent", "absent">>,
   <<"nonzero", "ok", "absent">>, <<"absent", "absent", "ok">>,
   <<"nonzero", "absent", "nonzero">>, <<"absent", "nonzero", "absent">>}

Init ==
  /\ args \in Invocations
  /\ file \in Files
  /\ fsBuild \in BOOLEAN
  /\ fsInstall \in BOOLEAN
  /\ args.interactive => ~fsBuild /\ ~fsInstall
  /\ fs0 = [build |-> fsBuild, install |-> fsInstall]
  /\ pc = "parse"
  /\ current_config = <<>>
  /\ loaded = <<>>
  /\ system = <<>>
  /\ machine = <<>>
  /\ warned = FALSE
  /\ exc = "none"
  /\ exitCode = -1
  /\ printed = <<>>
  /\ req = "unchecked"
  /\ phaselog = <<>>
  /\ cleanlog = <<>>
  /\ cmake_args = <<>>
  /\ success = "True"
  /\ wiz = <<>>
  /\ qi = 0
  /\ retries = 0
  /\ presetlog = <<>>
  /\ asked = <<>>

\* an exception that nothing catches: traceback, exit status 1
Raise(e) == /\ exc' = e
            /\ exitCode' = 1
            /\ pc' = "done"

\* `return code` from main, passed to sys.exit
Exit(code) == /\ exitCode' = code
              /\ pc' = "done"
              /\ exc' = exc

(***************************************************************************)
(* main()                                                                  *)
(***************************************************************************)
\* parser.parse_args(): a value outside `choices` is a usage error, status 2
ParseArgs ==
  /\ pc = "parse"
  /\ IF args.preset \notin PresetNames \cup {"none"}
        \/ args.action \notin Actions \cup {"none"}
     THEN Exit(2)
     ELSE pc' = "load" /\ UNCHANGED <<exitCode, exc>>
  /\ UNCHANGED <<args, file, fsBuild, fsInstall, fs0, current_config, loaded,
                 system, machine, warned, printed, req, phaselog, cleanlog,
                 cmake_args, success, wiz, qi, retries>>
  /\ UNCHANGED <<presetlog, asked>>

\* config = BuildConfig(): __init__ calls load_config
LoadConfig ==
  /\ pc = "load"
  /\ IF file.kind \in {"absent", "unreadable", "malformed"}
     THEN \E p \in Platforms, cpu \in 0..MaxCpu :
            LET r == load_config(file, get_default_config(p[1], p[2], cpu))
            IN  /\ system' = p[1]
                /\ machine' = p[2]
                /\ current_config' = r.config
                /\ loaded' = r.config
                /\ warned' = r.warned
                /\ pc' = "construct"
                /\ UNCHANGED <<exc, exitCode>>
     ELSE LET r == load_config(file, <<>>)
          IN  /\ UNCHANGED <<system, machine>>
              /\ current_config' = r.config
              /\ loaded' = r.config
              /\ warned' = r.warned
              /\ IF r.exc # "none" THEN Raise(r.exc)
                 ELSE pc' = "construct" /\ UNCHANGED <<exc, exitCode>>
  /\ UNCHANGED <<args, file, fsBuild, fsInstall, fs0, printed, req, phaselog,
                 cleanlog, cmake_args, success, wiz, qi, retries>>
  /\ UNCHANGED <<presetlog, asked>>

\* build_system = BuildSystem(config): reads build_dir and install_dir
Construct ==
  /\ pc = "construct"
  /\ IF {"build_dir", "install_dir"} \subseteq DOMAIN current_config
     THEN pc' = "special" /\ UNCHANGED <<exc, exitCode>>
     ELSE Raise("KeyError")
  /\ UNCHANGED <<args, file, fsBuild, fsInstall, fs0, current_config, loaded,
                 system, machine, warned, printed, req, phaselog, cleanlog,
                 cmake_args, success, wiz, qi, retries>>
  /\ UNCHANGED <<presetlog, asked>>

\* `if args.show_config:` show and return 0
ShowConfig ==
  /\ pc = "special"
  /\ args.show_config
  /\ IF ShownKeys \subseteq DOMAIN current_config
     THEN /\ printed' = Append(printed, show_config(current_config))
          /\ Exit(0)
     ELSE /\ Raise("KeyError")
          /\ UNCHANGED printed
  /\ UNCHANGED <<args, file, fsBuild, fsInstall, fs0, current_config, loaded,
                 system, machine, warned, req, phaselog, cleanlog, cmake_args,
                 success, wiz, qi, retries>>
  /\ UNCHANGED <<presetlog, asked>>

\* neither special flag: fall through to the preset
NoSpecial ==
  /\ pc = "special"
  /\ ~args.show_config
  /\ ~args.interactive
  /\ pc' = "preset"
  /\ UNCHANGED <<args, file, fsBuild, fsInstall, fs0, current_config, loaded,
                 system, machine, warned, exc, exitCode, printed, req,
                 phaselog, cleanlog, cmake_args, success, wiz, qi, retries>>
  /\ UNCHANGED <<presetlog, asked>>

\* `if args.preset:` overlay it, or report the unknown name and return 1
ApplyPreset ==
  /\ pc = "preset"
  /\ IF args.preset = "none"
     THEN /\ pc' = "action"
          /\ UNCHANGED <<current_config, exc, exitCode, presetlog>>
     ELSE LET r == apply_preset_call(current_config, args.preset)
          IN  /\ presetlog' = Append(presetlog, r)
              /\ IF r.error # "none"
                 THEN Exit(1) /\ current_config' = r.current
                 ELSE /\ current_config' = r.result
                      /\ pc' = "action"
                      /\ UNCHANGED <<exc, exitCode>>
  /\ UNCHANGED <<args, file, fsBuild, fsInstall, fs0, loaded, system, machine,
                 warned, printed, req, phaselog, cleanlog, cmake_args, success,
                 wiz, qi, retries>>
  /\ UNCHANGED asked

\* `if not args.action:` print the help and return 1
DetermineAction ==
  /\ pc = "action"
  /\ IF args.action = "none"
     THEN IF args.interactive \/ args.show_config THEN Exit(0) ELSE Exit(1)
     ELSE pc' = "check" /\ UNCHANGED <<exc, exitCode>>
  /\ UNCHANGED <<args, file, fsBuild, fsInstall, fs0, current_config, loaded,
                 system, machine, warned, printed, req, phaselog, cleanlog,
                 cmake_args, success, wiz, qi, retries>>
  /\ UNCHANGED <<presetlog, asked>>


(***************************************************************************)
(* The phases.  Each operator gives what the method returns and does:      *)
(* result is "True", "False" or "raised" (an exception left the method).   *)
(***************************************************************************)
OnOff(b) == IF b THEN "ON" ELSE "OFF"

\* the -D switches of cmake_args, in the order of the list
CMakeArgs(config, install_dir) ==
  << <<"CMAKE_BUILD_TYPE", config["build_type"]>>,
     <<"CMAKE_INSTALL_PREFIX", install_dir>>,
     <<"ENABLE_TESTS", OnOff(config["enable_tests"])>>,
     <<"ENABLE_EXAMPLES", OnOff(config["enable_examples"])>>,
     <<"ENABLE_BENCHMARKS", OnOff(config["enable_benchmarks"])>>,
     <<"ENABLE_DOCUMENTATION", OnOff(config["enable_documentation"])>>,
     <<"ENABLE_COVERAGE", OnOff(config["enable_coverage"])>>,
     <<"ENABLE_SANITIZERS", OnOff(config["enable_sanitizers"])>>,
     <<"ENABLE_STATIC", OnOff(config["enable_static"])>>,
     <<"ENABLE_SHARED", OnOff(config["enable_shared"])>>,
     <<"ENABLE_NEON", OnOff(config["enable_neon"])>>,
     <<"ENABLE_VFP", OnOff(config["enable_vfp"])>>,
     <<"ENABLE_SSE", OnOff(config["enable_sse"])>>,
     <<"ENABLE_SSE2", OnOff(config["enable_sse2"])>>,
     <<"ENABLE_SSE3", OnOff(config["enable_sse3"])>>,
     <<"ENABLE_AVX", OnOff(config["enable_avx"])>>,
     <<"ENABLE_AVX2", OnOff(config["enable_avx2"])>>,
     <<"DISABLE_DYNAMIC_CODE", OnOff(config["disable_dynamic_code"])>>,
     <<"GENERATE_POSITION_INDEPENDENT_CODE",
       OnOff(config["generate_position_independent_code"])>> >>

\* configure.  dirExists: the build directory exists; mk: what mkdir does when
\* it has to create it ("ok", "OSError"); run: how cmake ends ("ok", "nonzero",
\* or "notfound": there is no cmake to execute and subprocess.run raises
\* FileNotFoundError, which `except CalledProcessError` does not catch).
configure(config, install_dir, dirExists, mk, run) ==
  IF ~dirExists /\ mk = "OSError"
  THEN [result |-> "raised", exc |-> "OSError", dir |-> FALSE,
        spawned |-> FALSE, err |-> "exception", cmake_args |-> <<>>]
  ELSE IF ~(BoolKeys \cup {"build_type"} \subseteq DOMAIN config)
  THEN [result |-> "raised", exc |-> "KeyError", dir |-> TRUE,
        spawned |-> FALSE, err |-> "exception", cmake_args |-> <<>>]
  ELSE IF run = "notfound"
  THEN [result |-> "raised", exc |-> "FileNotFoundError", dir |-> TRUE,
        spawned |-> FALSE, err |-> "exception", cmake_args |-> <<>>]
  ELSE [result |-> IF run = "ok" THEN "True" ELSE "False", exc |-> "none",
        dir |-> TRUE, spawned |-> TRUE,
        err |-> IF run = "ok" THEN "none" ELSE "subprocess",
        cmake_args |-> CMakeArgs(config, install_dir)]

\* build without the test of the build directory
build_no_dir_check(config, dirExists, run) ==
  IF ~({"parallel_jobs", "build_type"} \subseteq DOMAIN config)
  THEN [result |-> "raised", exc |-> "KeyError", spawned |-> FALSE,
        err |-> "exception"]
  ELSE IF run = "notfound"
  THEN [result |-> "raised", exc |-> "FileNotFoundError", spawned |-> FALSE,
        err |-> "exception"]
  ELSE [result |-> IF run = "ok" THEN "True" ELSE "False", exc |-> "none",
        spawned |-> TRUE, err |-> IF run = "ok" THEN "none" ELSE "subprocess"]

\* build
build(config, dirExists, run) ==
  IF ~dirExists
  THEN [result |-> "False", exc |-> "none", spawned |-> FALSE,
        err |-> "precondition"]
  ELSE IF ~({"parallel_jobs", "build_type"} \subseteq DOMAIN config)
  THEN [result |-> "raised", exc |-> "KeyError", spawned |-> FALSE,
        err |-> "exception"]
  ELSE IF run = "notfound"
  THEN [result |-> "raised", exc |-> "FileNotFoundError", spawned |-> FALSE,
        err |-> "exception"]
  ELSE [result |-> IF run = "ok" THEN "True" ELSE "False", exc |-> "none",
        spawned |-> TRUE, err |-> IF run = "ok" THEN "none" ELSE "subprocess"]

\* test.  run = "notfound": there is no ctest to execute, subprocess.run
\* raises FileNotFoundError
test(dirExists, run) ==
  IF ~dirExists
  THEN [result |-> "False", exc |-> "none", spawned |-> FALSE,
        err |-> "precondition"]
  ELSE IF run = "notfound"
  THEN [result |-> "raised", exc |-> "FileNotFoundError", spawned |-> FALSE,
        err |-> "exception"]
  ELSE [result |-> IF run = "ok" THEN "True" ELSE "False", exc |-> "none",
        spawned |-> TRUE, err |-> IF run = "ok" THEN "none" ELSE "subprocess"]

\* install
install(dirExists, run) ==
  IF ~dirExists
  THEN [result |-> "False", exc |-> "none", spawned |-> FALSE,
        err |-> "precondition"]
  ELSE IF run = "notfound"
  THEN [result |-> "raised", exc |-> "FileNotFoundError", spawned |-> FALSE,
        err |-> "exception"]
  ELSE [result |-> IF run = "ok" THEN "True" ELSE "False", exc |-> "none",
        spawned |-> TRUE, err |-> IF run = "ok" THEN "none" ELSE "subprocess"]

\* clean.  b, i: the build and the install directory exist; rmb, rmi: what
\* shutil.rmtree does on each ("ok", "OSError").
clean(b, i, rmb, rmi) ==
  IF b /\ rmb = "OSError"
  THEN [result |-> "False", build |-> b, install |-> i,
        attempted |-> {"build"}, failed |-> {"build"},
        existed |-> [build |-> b, install |-> i]]
  ELSE IF i /\ rmi = "OSError"
  THEN [result |-> "False", build |-> FALSE, install |-> i,
        attempted |-> (IF b THEN {"build"} ELSE {}) \cup {"install"},
        failed |-> {"install"},
        existed |-> [build |-> b, install |-> i]]
  ELSE [result |-> "True", build |-> FALSE, install |-> FALSE,
        attempted |-> (IF b THEN {"build"} ELSE {})
                        \cup (IF i THEN {"install"} ELSE {}),
        failed |-> {},
        existed |-> [build |-> b, install |-> i]]

\* how a cmake started by main ends: check_requirements has run
\* `cmake --version` before, so there is a cmake to execute
RunOutcomes == {"ok", "nonzero"}

\* how a tool ends that nothing has looked for before: ctest anywhere, cmake
\* when a phase method is called on its own
SpawnOutcomes == RunOutcomes \cup {"notfound"}
RmOutcomes == {"ok", "OSError"}

\* the first phase of an action (the if/elif chain of main)
Dispatch(action, cl) ==
  CASE action = "configure" -> "configure"
    [] action \in {"build", "all"} -> IF cl THEN "preclean" ELSE "configure"
    [] action = "test" -> "test"
    [] action = "install" -> "install"
    [] action = "clean" -> "clean"

\* main going on to the action whatever the check said
AfterCheck_ignored(ok, action, cl) == Dispatch(action, cl)

\* `if not build_system.check_requirements(): return 1`
AfterCheck(ok, action, cl) == IF ok THEN Dispatch(action, cl) ELSE "exit1"

\* the chains of main with the result of test not looked at
AfterPhase_test_ignored(action, phase, result) ==
  IF result # "True" /\ phase # "test" THEN "finish"
  ELSE CASE phase = "configure" ->
              IF action \in {"build", "all"} THEN "build" ELSE "finish"
         [] phase = "build" -> IF action = "all" THEN "test" ELSE "finish"
         [] phase = "test" -> IF action = "all" THEN "install" ELSE "finish"
         [] OTHER -> "finish"

\* what main does once `phase` has returned `result`: the `and` chains
AfterPhase(action, phase, result) ==
  IF result # "True" THEN "finish"
  ELSE CASE phase = "configure" ->
              IF action \in {"build", "all"} THEN "build" ELSE "finish"
         [] phase = "build" -> IF action = "all" THEN "test" ELSE "finish"
         [] phase = "test" -> IF action = "all" THEN "install" ELSE "finish"
         [] OTHER -> "finish"

Entry(phase, r, dirAtEntry) ==
  [phase |-> phase, result |-> r.result, dirAtEntry |-> dirAtEntry,
   spawned |-> r.spawned, err |-> r.err]

\* what follows a phase that returned or raised
Return(phase, r) ==
  IF r.result = "raised"
  THEN Raise(r.exc) /\ UNCHANGED success
  ELSE /\ success' = r.result
       /\ pc' = AfterPhase(args.action, phase, r.result)
       /\ UNCHANGED <<exc, exitCode>>

CheckRequirements ==
  /\ pc = "check"
  /\ \E cmake \in CMakeProbes, comps \in CompilerProbes :
       LET ok == check_requirements(cmake, comps)
           nxt == AfterCheck(ok, args.action, args.clean)
       IN  /\ req' = IF ok THEN "True" ELSE "False"
           /\ IF nxt = "exit1" THEN Exit(1)
              ELSE pc' = nxt /\ UNCHANGED <<exc, exitCode>>
  /\ UNCHANGED <<args, file, fsBuild, fsInstall, fs0, current_config, loaded,
                 system, machine, warned, printed, phaselog, cleanlog,
                 cmake_args, success, wiz, qi, retries>>
  /\ UNCHANGED <<presetlog, asked>>

\* `if args.clean: build_system.clean()`: the result is dropped
PreClean ==
  /\ pc = "preclean"
  /\ \E rmb \in RmOutcomes, rmi \in RmOutcomes :
       LET r == clean(fsBuild, fsInstall, rmb, rmi)
       IN  /\ fsBuild' = r.build
           /\ fsInstall' = r.install
           /\ cleanlog' = Append(cleanlog, r)
           /\ phaselog' = Append(phaselog,
                [phase |-> "clean", result |-> r.result,
                 dirAtEntry |-> fsBuild, spawned |-> FALSE,
                 err |-> IF r.result = "True" THEN "none" ELSE "remove"])
  /\ pc' = "configure"
  /\ UNCHANGED <<args, file, fs0, current_config, loaded, system, machine,
                 warned, exc, exitCode, printed, req, cmake_args, success,
                 wiz, qi, retries>>
  /\ UNCHANGED <<presetlog, asked>>

Configure ==
  /\ pc = "configure"
  /\ \E mk \in RmOutcomes, run \in RunOutcomes :
       LET r == configure(current_config, loaded["install_dir"], fsBuild,
                          mk, run)
       IN  /\ fsBuild' = r.dir
           /\ cmake_args' = r.cmake_args
           /\ phaselog' = Append(phaselog, Entry("configure", r, fsBuild))
           /\ Return("configure", r)
  /\ UNCHANGED <<args, file, fsInstall, fs0, current_config, loaded, system,
                 machine, warned, printed, req, cleanlog, wiz, qi, retries>>
  /\ UNCHANGED <<presetlog, asked>>

Build ==
  /\ pc = "build"
  /\ \E run \in RunOutcomes :
       LET r == build(current_config, fsBuild, run)
       IN  /\ phaselog' = Append(phaselog, Entry("build", r, fsBuild))
           /\ Return("build", r)
  /\ UNCHANGED <<args, file, fsBuild, fsInstall, fs0, current_config, loaded,
                 system, machine, warned, printed, req, cleanlog, cmake_args,
                 wiz, qi, retries>>
  /\ UNCHANGED <<presetlog, asked>>

Test ==
  /\ pc = "test"
  /\ \E run \in SpawnOutcomes :
       LET r == test(fsBuild, run)
       IN  /\ phaselog' = Append(phaselog, Entry("test", r, fsBuild))
           /\ Return("test", r)
  /\ UNCHANGED <<args, file, fsBuild, fsInstall, fs0, current_config, loaded,
                 system, machine, warned, printed, req, cleanlog, cmake_args,
                 wiz, qi, retries>>
  /\ UNCHANGED <<presetlog, asked>>

\* install() itself does not touch the install directory: whether it exists
\* afterwards is up to the `cmake --install` it has spawned (made)
Install ==
  /\ pc = "install"
  /\ \E run \in RunOutcomes, made \in BOOLEAN :
       LET r == install(fsBuild, run)
       IN  /\ phaselog' = Append(phaselog, Entry("install", r, fsBuild))
           /\ fsInstall' = (fsInstall \/ (r.spawned /\ made))
           /\ Return("install", r)
  /\ UNCHANGED <<args, file, fsBuild, fs0, current_config, loaded, system,
                 machine, warned, printed, req, cleanlog, cmake_args, wiz, qi,
                 retries>>
  /\ UNCHANGED <<presetlog, asked>>

\* action `clean`
Clean ==
  /\ pc = "clean"
  /\ \E rmb \in RmOutcomes, rmi \in RmOutcomes :
       LET r == clean(fsBuild, fsInstall, rmb, rmi)
       IN  /\ fsBuild' = r.build
           /\ fsInstall' = r.install
           /\ cleanlog' = Append(cleanlog, r)
           /\ phaselog' = Append(phaselog,
                [phase |-> "clean", result |-> r.result,
                 dirAtEntry |-> fsBuild, spawned |-> FALSE,
                 err |-> IF r.result = "True" THEN "none" ELSE "remove"])
           /\ success' = r.result
  /\ pc' = "finish"
  /\ UNCHANGED <<args, file, fs0, current_config, loaded, system, machine,
                 warned, exc, exitCode, printed, req, cmake_args, wiz, qi,
                 retries>>
  /\ UNCHANGED <<presetlog, asked>>

\* `if success: ... return 0 else: ... return 1`
Finish ==
  /\ pc = "finish"
  /\ Exit(IF success = "True" THEN 0 ELSE 1)
  /\ UNCHANGED <<args, file, fsBuild, fsInstall, fs0, current_config, loaded,
                 system, machine, warned, printed, req, phaselog, cleanlog,
                 cmake_args, success, wiz, qi, retries>>
  /\ UNCHANGED <<presetlog, asked>>


(***************************************************************************)
(* interactive_config                                                      *)
(***************************************************************************)
Questions ==
  <<"enable_static", "enable_shared", "enable_tests", "enable_neon",
    "enable_sse">>

\* lines typed at the build-type prompt
BuildTypeInputs ==
  {<<>>, <<"1">>, <<"2">>, <<" ", "3">>, <<"4", " ">>, <<"5">>, <<"x">>}

\* lines typed at a yes/no prompt
YesNoInputs ==
  {<<>>, <<"y">>, <<"Y", "E", "S">>, <<"n">>, <<" ", "N", "o">>,
   <<"m", "a", "y", "b", "e">>}

\* the build-type loop body on one line of input: the new `current` and
\* whether the loop is left
build_type_choice(current, raw) ==
  LET choice == Strip(raw)
  IN  CASE choice = <<>> -> [current |-> current, done |-> TRUE]
        [] choice = <<"1">> ->
             [current |-> [current EXCEPT !["build_type"] = "Debug"],
              done |-> TRUE]
        [] choice = <<"2">> ->
             [current |-> [current EXCEPT !["build_type"] = "Release"],
              done |-> TRUE]
        [] choice = <<"3">> ->
             [current |-> [current EXCEPT !["build_type"] = "RelWithDebInfo"],
              done |-> TRUE]
        [] choice = <<"4">> ->
             [current |-> [current EXCEPT !["build_type"] = "MinSizeRel"],
              done |-> TRUE]
        [] OTHER -> [current |-> current, done |-> FALSE]

\* a yes/no question that takes everything but y/yes for a no
yes_no_else_false(current, key, raw) ==
  LET a == Lower(Strip(raw))
  IN  IF a \in {<<"y">>, <<"y", "e", "s">>}
      THEN [current EXCEPT ![key] = TRUE]
      ELSE [current EXCEPT ![key] = FALSE]

\* one yes/no question about `key`
yes_no(current, key, raw) ==
  LET a == Lower(Strip(raw))
  IN  IF a \in {<<"y">>, <<"y", "e", "s">>}
      THEN [current EXCEPT ![key] = TRUE]
      ELSE IF a \in {<<"n">>, <<"n", "o">>}
           THEN [current EXCEPT ![key] = FALSE]
           ELSE current

\* `if save not in ['n', 'no']`
wants_save(raw) == Lower(Strip(raw)) \notin {<<"n">>, <<"n", "o">>}

\* save_config: the file after the call.  io = "open_fails": open(file, 'w')
\* raises and the file is as it was; io = "write_fails": open has created or
\* truncated the file and json.dump raises, the file is left empty, which
\* does not parse.  Both are caught and reported.
save_config(f, config, io) ==
  CASE io = "ok" -> [kind |-> "valid", content |-> config]
    [] io = "open_fails" -> f
    [] io = "write_fails" -> [kind |-> "malformed", content |-> <<>>]

SaveOutcomes == {"ok", "open_fails", "write_fails"}

\* `if args.interactive:` enter the wizard, which copies the configuration
StartWizard ==
  /\ pc = "special"
  /\ ~args.show_config
  /\ args.interactive
  /\ wiz' = current_config
  /\ pc' = "wiz_bt"
  /\ UNCHANGED <<args, file, fsBuild, fsInstall, fs0, current_config, loaded,
                 system, machine, warned, exc, exitCode, printed, req,
                 phaselog, cleanlog, cmake_args, success, qi, retries>>
  /\ UNCHANGED <<presetlog, asked>>

\* one pass of `while True:`; the prompt reads current['build_type']
WizBuildType ==
  /\ pc = "wiz_bt"
  /\ IF "build_type" \notin DOMAIN wiz
     THEN Raise("KeyError") /\ UNCHANGED <<wiz, qi, retries>>
     ELSE \E raw \in BuildTypeInputs :
            LET r == build_type_choice(wiz, raw)
            IN  /\ r.done \/ retries < MaxRetries
                /\ wiz' = r.current
                /\ IF r.done
                   THEN pc' = "wiz_q" /\ qi' = 1 /\ UNCHANGED retries
                   ELSE pc' = pc /\ retries' = retries + 1 /\ UNCHANGED qi
                /\ UNCHANGED <<exc, exitCode>>
  /\ UNCHANGED <<args, file, fsBuild, fsInstall, fs0, current_config, loaded,
                 system, machine, warned, printed, req, phaselog, cleanlog,
                 cmake_args, success>>
  /\ UNCHANGED <<presetlog, asked>>

\* the five yes/no questions, in order; each prompt reads the key it asks about
WizYesNo ==
  /\ pc = "wiz_q"
  /\ IF Questions[qi] \notin DOMAIN wiz
     THEN Raise("KeyError") /\ UNCHANGED <<wiz, qi>>
     ELSE \E raw \in YesNoInputs :
            /\ wiz' = yes_no(wiz, Questions[qi], raw)
            /\ IF qi < Len(Questions)
               THEN qi' = qi + 1 /\ pc' = pc
               ELSE qi' = qi /\ pc' = "wiz_save"
            /\ UNCHANGED <<exc, exitCode>>
  /\ UNCHANGED <<args, file, fsBuild, fsInstall, fs0, current_config, loaded,
                 system, machine, warned, printed, req, phaselog, cleanlog,
                 cmake_args, success, retries>>
  /\ UNCHANGED <<presetlog, asked>>

\* the closing question and save_config
WizSave ==
  /\ pc = "wiz_save"
  /\ \E raw \in YesNoInputs, io \in SaveOutcomes :
       file' = IF wants_save(raw) THEN save_config(file, wiz, io) ELSE file
  /\ pc' = "wiz_done"
  /\ UNCHANGED <<args, fsBuild, fsInstall, fs0, current_config, loaded,
                 system, machine, warned, exc, exitCode, printed, req,
                 phaselog, cleanlog, cmake_args, success, wiz, qi, retries>>
  /\ UNCHANGED <<presetlog, asked>>

\* back in main: adopt the wizard's configuration, show it, return 0
WizReturn ==
  /\ pc = "wiz_done"
  /\ current_config' = wiz
  /\ IF ShownKeys \subseteq DOMAIN wiz
     THEN /\ printed' = Append(printed, show_config(wiz))
          /\ Exit(0)
     ELSE /\ Raise("KeyError")
          /\ UNCHANGED printed
  /\ UNCHANGED <<args, file, fsBuild, fsInstall, fs0, loaded, system, machine,
                 warned, req, phaselog, cleanlog, cmake_args, success, wiz, qi,
                 retries>>
  /\ UNCHANGED <<presetlog, asked>>

Next ==
  \/ ParseArgs
  \/ LoadConfig
  \/ Construct
  \/ ShowConfig
  \/ StartWizard
  \/ WizBuildType
  \/ WizYesNo
  \/ WizSave
  \/ WizReturn
  \/ NoSpecial
  \/ ApplyPreset
  \/ DetermineAction
  \/ CheckRequirements
  \/ PreClean
  \/ Configure
  \/ Build
  \/ Test
  \/ Install
  \/ Clean
  \/ Finish

Spec == Init /\ [][Next]_vars


(***************************************************************************)
(* The phase methods called directly on a BuildSystem, in any order: the   *)
(* methods' own contracts, without main's ordering.                        *)
(***************************************************************************)
InitCalls ==
  /\ args = [action |-> "none", preset |-> "none", interactive |-> FALSE,
             show_config |-> FALSE, clean |-> FALSE]
  /\ file \in {[kind |-> "absent", content |-> <<>>],
               [kind |-> "valid", content |-> SnapFull]}
  /\ fsBuild \in BOOLEAN
  /\ fsInstall \in BOOLEAN
  /\ fs0 = [build |-> fsBuild, install |-> fsInstall]
  /\ pc = "api"
  /\ system = RawSystems.linux
  /\ machine = RawMachines.x86_64
  /\ current_config =
       load_config(file, get_default_config(system, machine, 1)).config
  /\ loaded = current_config
  /\ warned = FALSE
  /\ exc = "none"
  /\ exitCode = -1
  /\ printed = <<>>
  /\ req = "unchecked"
  /\ phaselog = <<>>
  /\ cleanlog = <<>>
  /\ cmake_args = <<>>
  /\ success = "True"
  /\ wiz = <<>>
  /\ qi = 0
  /\ retries = 0
  /\ presetlog = <<>>
  /\ asked = <<>>

\* the caller sees the method return, or the exception it let through
Returned(r) ==
  /\ Len(phaselog) < MaxCalls
  /\ success' = IF r.result = "raised" THEN success ELSE r.result
  /\ exc' = IF r.result = "raised" THEN r.exc ELSE exc
  /\ pc' = IF r.result = "raised" THEN "done" ELSE pc
  /\ UNCHANGED <<args, file, fs0, current_config, loaded, system, machine,
                 warned, exitCode, printed, req, wiz, qi, retries>>
  /\ UNCHANGED <<presetlog, asked>>

CallConfigure ==
  /\ pc = "api"
  /\ \E mk \in RmOutcomes, run \in SpawnOutcomes :
       LET r == configure(current_config, loaded["install_dir"], fsBuild,
                          mk, run)
       IN  /\ fsBuild' = r.dir
           /\ cmake_args' = r.cmake_args
           /\ phaselog' = Append(phaselog, Entry("configure", r, fsBuild))
           /\ Returned(r)
  /\ UNCHANGED <<fsInstall, cleanlog>>

CallBuild ==
  /\ pc = "api"
  /\ \E run \in SpawnOutcomes :
       LET r == build(current_config, fsBuild, run)
       IN  /\ phaselog' = Append(phaselog, Entry("build", r, fsBuild))
           /\ Returned(r)
  /\ UNCHANGED <<fsBuild, fsInstall, cleanlog, cmake_args>>

CallTest ==
  /\ pc = "api"
  /\ \E run \in SpawnOutcomes :
       LET r == test(fsBuild, run)
       IN  /\ phaselog' = Append(phaselog, Entry("test", r, fsBuild))
           /\ Returned(r)
  /\ UNCHANGED <<fsBuild, fsInstall, cleanlog, cmake_args>>

CallInstall ==
  /\ pc = "api"
  /\ \E run \in SpawnOutcomes, made \in BOOLEAN :
       LET r == install(fsBuild, run)
       IN  /\ phaselog' = Append(phaselog, Entry("install", r, fsBuild))
           /\ fsInstall' = (fsInstall \/ (r.spawned /\ made))
           /\ Returned(r)
  /\ UNCHANGED <<fsBuild, cleanlog, cmake_args>>

CallClean ==
  /\ pc = "api"
  /\ \E rmb \in RmOutcomes, rmi \in RmOutcomes :
       LET r == clean(fsBuild, fsInstall, rmb, rmi)
       IN  /\ fsBuild' = r.build
           /\ fsInstall' = r.install
           /\ cleanlog' = Append(cleanlog, r)
           /\ phaselog' = Append(phaselog,
                [phase |-> "clean", result |-> r.result,
                 dirAtEntry |-> fsBuild, spawned |-> FALSE,
                 err |-> IF r.result = "True" THEN "none" ELSE "remove"])
           /\ Returned(r)
  /\ UNCHANGED cmake_args

NextCalls ==
  \/ CallConfigure
  \/ CallBuild
  \/ CallTest
  \/ CallInstall
  \/ CallClean

SpecCalls == InitCalls /\ [][NextCalls]_vars


(***************************************************************************)
(* apply_preset called directly on a BuildConfig, several times in a row,  *)
(* with names inside and outside the preset table; the caller stores the   *)
(* result in current_config as main does, and catches the ValueError.      *)
(***************************************************************************)
PresetArgs == PresetNames \cup {"bogus", "Release"}

InitPreset ==
  /\ args = [action |-> "none", preset |-> "none", interactive |-> FALSE,
             show_config |-> FALSE, clean |-> FALSE]
  /\ file \in {[kind |-> "absent", content |-> <<>>],
               [kind |-> "valid", content |-> SnapFull],
               [kind |-> "valid", content |-> SnapPartial]}
  /\ fsBuild = FALSE
  /\ fsInstall = FALSE
  /\ fs0 = [build |-> fsBuild, install |-> fsInstall]
  /\ pc = "preset_api"
  /\ \E p \in Platforms : system = p[1] /\ machine = p[2]
  /\ current_config =
       load_config(file, get_default_config(system, machine, 1)).config
  /\ loaded = current_config
  /\ warned = FALSE
  /\ exc = "none"
  /\ exitCode = -1
  /\ printed = <<>>
  /\ req = "unchecked"
  /\ phaselog = <<>>
  /\ cleanlog = <<>>
  /\ cmake_args = <<>>
  /\ success = "True"
  /\ wiz = <<>>
  /\ qi = 0
  /\ retries = 0
  /\ presetlog = <<>>
  /\ asked = <<>>

CallApplyPreset ==
  /\ pc = "preset_api"
  /\ Len(presetlog) < MaxApplies
  /\ \E name \in PresetArgs :
       LET r == apply_preset_call(current_config, name)
       IN  /\ presetlog' = Append(presetlog, r)
           /\ current_config' = IF r.error = "none" THEN r.result
                                ELSE r.current
  /\ UNCHANGED <<args, file, fsBuild, fsInstall, fs0, pc, loaded, system,
                 machine, warned, exc, exitCode, printed, req, phaselog,
                 cleanlog, cmake_args, success, wiz, qi, retries>>
  /\ UNCHANGED asked

NextPreset == CallApplyPreset

SpecPreset == InitPreset /\ [][NextPreset]_vars

(***************************************************************************)
(* interactive_config called on its own on a BuildConfig: the prompts in   *)
(* order, each recording the line it read and the `current` it started     *)
(* from.                                                                   *)
(***************************************************************************)
InitWizard ==
  /\ args = [action |-> "none", preset |-> "none", interactive |-> TRUE,
             show_config |-> FALSE, clean |-> FALSE]
  /\ file = [kind |-> "absent", content |-> <<>>]
  /\ fsBuild = FALSE
  /\ fsInstall = FALSE
  /\ fs0 = [build |-> fsBuild, install |-> fsInstall]
  /\ pc = "wiz_bt"
  /\ \E p \in {<<RawSystems.linux, RawMachines.x86_64>>,
               <<RawSystems.windows, RawMachines.AMD64>>} :
       system = p[1] /\ machine = p[2]
  /\ current_config \in {get_default_config(system, machine, 1),
                         apply_preset(SnapFull, "android"), SnapPartial}
  /\ loaded = current_config
  /\ warned = FALSE
  /\ exc = "none"
  /\ exitCode = -1
  /\ printed = <<>>
  /\ req = "unchecked"
  /\ phaselog = <<>>
  /\ cleanlog = <<>>
  /\ cmake_args = <<>>
  /\ success = "True"
  /\ wiz = current_config
  /\ qi = 0
  /\ retries = 0
  /\ presetlog = <<>>
  /\ asked = <<>>

\* one pass of `while True:`
AskBuildType ==
  /\ pc = "wiz_bt"
  /\ IF "build_type" \notin DOMAIN wiz
     THEN /\ exc' = "KeyError"
          /\ pc' = "done"
          /\ UNCHANGED <<wiz, qi, retries, asked>>
     ELSE \E raw \in BuildTypeInputs :
            LET r == build_type_choice(wiz, raw)
            IN  /\ r.done \/ retries < MaxRetries
                /\ wiz' = r.current
                /\ asked' = [q |-> "build_type", raw |-> raw, before |-> wiz,
                             saved |-> "none"]
                /\ IF r.done
                   THEN pc' = "wiz_q" /\ qi' = 1 /\ UNCHANGED retries
                   ELSE pc' = pc /\ retries' = retries + 1 /\ UNCHANGED qi
                /\ UNCHANGED exc
  /\ UNCHANGED <<args, file, fsBuild, fsInstall, fs0, current_config, loaded,
                 system, machine, warned, exitCode, printed, req, phaselog,
                 cleanlog, cmake_args, success, presetlog>>

\* the five yes/no questions, in order
AskYesNo ==
  /\ pc = "wiz_q"
  /\ IF Questions[qi] \notin DOMAIN wiz
     THEN /\ exc' = "KeyError"
          /\ pc' = "done"
          /\ UNCHANGED <<wiz, qi, asked>>
     ELSE \E raw \in YesNoInputs :
            /\ wiz' = yes_no(wiz, Questions[qi], raw)
            /\ asked' = [q |-> Questions[qi], raw |-> raw, before |-> wiz,
                         saved |-> "none"]
            /\ IF qi < Len(Questions)
               THEN qi' = qi + 1 /\ pc' = pc
               ELSE qi' = qi /\ pc' = "wiz_save"
            /\ UNCHANGED exc
  /\ UNCHANGED <<args, file, fsBuild, fsInstall, fs0, current_config, loaded,
                 system, machine, warned, exitCode, printed, req, phaselog,
                 cleanlog, cmake_args, success, retries, presetlog>>

\* the closing question, save_config, `return current`
AskSave ==
  /\ pc = "wiz_save"
  /\ \E raw \in YesNoInputs, io \in SaveOutcomes :
       /\ file' = IF wants_save(raw) THEN save_config(file, wiz, io) ELSE file
       /\ asked' = [q |-> "save", raw |-> raw, before |-> wiz,
                    saved |-> IF ~wants_save(raw) THEN "skipped"
                              ELSE IF io = "ok" THEN "written" ELSE "IOError"]
  /\ pc' = "wiz_done"
  /\ UNCHANGED <<args, fsBuild, fsInstall, fs0, current_config, loaded,
                 system, machine, warned, exc, exitCode, printed, req,
                 phaselog, cleanlog, cmake_args, success, wiz, qi, retries,
                 presetlog>>

NextWizard ==
  \/ AskBuildType
  \/ AskYesNo
  \/ AskSave

SpecWizard == InitWizard /\ [][NextWizard]_vars

(***************************************************************************)
(* Properties                                                              *)
(***************************************************************************)
Range(f) == {f[i] : i \in DOMAIN f}

IsNotClean(e) == e.phase # "clean"

\* the phases of the chain, without the optional clean in front
Chain == SelectSeq(phaselog, IsNotClean)

AllOrder == <<"configure", "build", "test", "install">>

\* load_config has been called (a usage error ends the run before it)
LoadCalled == pc \notin {"parse", "load"} /\ exitCode # 2

\* C1: for the action `all` the phases run in the order configure, build,
\* test, install; a phase is invoked only if all earlier ones were invoked and
\* returned success; a phase that returned failure makes the action report
\* failure.
C1_AllShortCircuits ==
  args.action = "all" =>
    /\ Len(Chain) <= Len(AllOrder)
    /\ \A i \in 1..Len(Chain) :
         /\ Chain[i].phase = AllOrder[i]
         /\ \A j \in 1..(i - 1) : Chain[j].result = "True"
    /\ (pc = "done" /\ \E i \in 1..Len(Chain) : Chain[i].result = "False")
         => exitCode = 1

\* C1 witness: configure and build succeeded, the test runner exited nonzero,
\* install was not invoked and the run reported failure.
C1_Witness ==
  /\ args.action = "all"
  /\ pc = "done"
  /\ Len(Chain) = 3
  /\ Chain[1].result = "True"
  /\ Chain[2].result = "True"
  /\ Chain[3].phase = "test"
  /\ Chain[3].result = "False"
  /\ exitCode = 1

\* C2: in clean the two removals are independent: a directory that exists has
\* its removal attempted whatever happened to the other one, and clean
\* returns failure exactly when an attempted removal failed.
C2_CleanIndependent ==
  \A i \in 1..Len(cleanlog) :
    /\ cleanlog[i].existed.build => "build" \in cleanlog[i].attempted
    /\ cleanlog[i].existed.install => "install" \in cleanlog[i].attempted
    /\ cleanlog[i].result = "False" <=> cleanlog[i].failed # {}

\* C3: build, test or install invoked while the build directory does not
\* exist returns failure with the precondition error and spawns nothing; a
\* subprocess of these phases is spawned only when the directory exists.
C3_NoSpawnWithoutBuildDir ==
  \A i \in 1..Len(phaselog) :
    phaselog[i].phase \in {"build", "test", "install"} =>
      /\ phaselog[i].spawned => phaselog[i].dirAtEntry
      /\ ~phaselog[i].dirAtEntry =>
           /\ phaselog[i].result = "False"
           /\ phaselog[i].err = "precondition"
           /\ ~phaselog[i].spawned

\* C3 witness: build, test and install have each been called with the build
\* directory missing.
C3_Witness ==
  /\ Len(phaselog) = 3
  /\ {phaselog[i].phase : i \in 1..3} = {"build", "test", "install"}
  /\ \A i \in 1..3 : ~phaselog[i].dirAtEntry

\* C4: every phase function returns a boolean whatever its external
\* operations do: no failure of a spawned tool and no failure to create the
\* build directory leaves the phase as an exception (for a configuration
\* that has every key).
C4_PhasesReturnBoolean ==
  ConfigKeys \subseteq DOMAIN current_config =>
    \A i \in 1..Len(phaselog) : phaselog[i].result \in {"True", "False"}

\* build_config.json is still the file load_config saw: the wizard, which may
\* rewrite it, has not been started
FileAsLoaded == wiz = <<>>

\* C5: loading never aborts: a file that exists but cannot be read, decoded
\* or parsed gives exactly the default configuration and a warning; an absent
\* file gives exactly the default configuration.
C5_LoadFallsBack ==
  (LoadCalled /\ FileAsLoaded /\ file.kind # "valid") =>
    /\ exc # "UnicodeDecodeError"
    /\ DOMAIN loaded = ConfigKeys
    /\ loaded = get_default_config(system, machine, loaded["parallel_jobs"])
    /\ file.kind # "absent" => warned

\* C6: the current configuration always contains every key of the default
\* configuration, also when it comes from a snapshot that parsed.
C6_AllDefaultKeys ==
  (LoadCalled /\ exc = "none") => ConfigKeys \subseteq DOMAIN current_config

AnyPhaseFailed == \E i \in 1..Len(phaselog) : phaselog[i].result = "False"

\* C7: the exit code is 0 on success and on --show-config / --interactive,
\* and 1 on a failed requirement check, an unknown preset, a missing action
\* without informational flag, or the failure of any phase that was run
\* (the clean run for --clean included).
C7_ExitCodes ==
  (pc = "done" /\ exc = "none") =>
    /\ exitCode \in {0, 1}
    /\ args.preset \notin PresetNames \cup {"none"} => exitCode = 1
    /\ req = "False" => exitCode = 1
    /\ AnyPhaseFailed => exitCode = 1
    /\ (args.action = "none" /\ ~args.show_config /\ ~args.interactive)
         => exitCode = 1
    /\ (args.preset \in PresetNames \cup {"none"}
        /\ (args.show_config \/ args.interactive)) => exitCode = 0
    /\ (phaselog # <<>> /\ ~AnyPhaseFailed) => exitCode = 0

\* C8: the requirement check comes before any phase; when it fails the run
\* exits with 1, no phase is invoked, nothing is spawned and neither
\* directory is created or removed.
C8_CheckBeforePhases ==
  /\ phaselog # <<>> => req = "True"
  /\ req = "False" =>
       /\ phaselog = <<>>
       /\ cleanlog = <<>>
       /\ cmake_args = <<>>
       /\ fsBuild = fs0.build
       /\ fsInstall = fs0.install
       /\ pc = "done"
       /\ exitCode = 1

\* C8 witness: `all --clean` with both directories present and a failed check.
C8_Witness ==
  /\ args.action = "all"
  /\ args.clean
  /\ fs0.build
  /\ fs0.install
  /\ req = "False"
  /\ pc = "done"

\* C9: --show-config prints the resolved configuration and exits 0 without
\* requirement check or phase; with --preset on the same command line what is
\* printed is the configuration with the preset overlaid.
C9_ShowConfigResolved ==
  (pc = "done" /\ exc = "none" /\ exitCode # 2 /\ args.show_config) =>
    /\ exitCode = 0
    /\ req = "unchecked"
    /\ phaselog = <<>>
    /\ Len(printed) = 1
    /\ args.preset \in PresetNames =>
         printed[1] = show_config(apply_preset(loaded, args.preset))

\* the cache variable that carries each boolean option
FlagOf ==
  [k \in BoolKeys |->
     CASE k = "enable_tests" -> "ENABLE_TESTS"
       [] k = "enable_examples" -> "ENABLE_EXAMPLES"
       [] k = "enable_benchmarks" -> "ENABLE_BENCHMARKS"
       [] k = "enable_documentation" -> "ENABLE_DOCUMENTATION"
       [] k = "enable_coverage" -> "ENABLE_COVERAGE"
       [] k = "enable_sanitizers" -> "ENABLE_SANITIZERS"
       [] k = "enable_static" -> "ENABLE_STATIC"
       [] k = "enable_shared" -> "ENABLE_SHARED"
       [] k = "enable_neon" -> "ENABLE_NEON"
       [] k = "enable_vfp" -> "ENABLE_VFP"
       [] k = "enable_sse" -> "ENABLE_SSE"
       [] k = "enable_sse2" -> "ENABLE_SSE2"
       [] k = "enable_sse3" -> "ENABLE_SSE3"
       [] k = "enable_avx" -> "ENABLE_AVX"
       [] k = "enable_avx2" -> "ENABLE_AVX2"
       [] k = "disable_dynamic_code" -> "DISABLE_DYNAMIC_CODE"
       [] k = "generate_position_independent_code" ->
            "GENERATE_POSITION_INDEPENDENT_CODE"]

\* the configuration in use is the default one of this host
Defaulted == LoadCalled /\ file.kind = "absent" /\ system # <<>>

\* C10: the default configuration follows the host: Linux on ARM/AArch64 has
\* NEON on; Linux on x86_64 has SSE, SSE2, SSE3 on and NEON off; Darwin on
\* ARM64 has NEON and PIC on; Windows has static and shared on; everywhere
\* tests on, coverage off, sanitizers off, static on, shared off except on
\* Windows; configure turns every boolean into its -D<KEY>=ON/OFF switch.
C10_DefaultsByPlatform ==
  /\ Defaulted =>
       /\ DOMAIN loaded = ConfigKeys
       /\ (system = RawSystems.linux
           /\ machine \in {RawMachines.aarch64, RawMachines.armv7l})
            => loaded["enable_neon"]
       /\ (system = RawSystems.linux /\ machine = RawMachines.x86_64)
            => /\ loaded["enable_sse"]
               /\ loaded["enable_sse2"]
               /\ loaded["enable_sse3"]
               /\ ~loaded["enable_neon"]
       /\ (system = RawSystems.darwin /\ machine = RawMachines.arm64)
            => /\ loaded["enable_neon"]
               /\ loaded["generate_position_independent_code"]
       /\ system = RawSystems.windows
            => loaded["enable_static"] /\ loaded["enable_shared"]
       /\ loaded["enable_tests"]
       /\ ~loaded["enable_coverage"]
       /\ ~loaded["enable_sanitizers"]
       /\ loaded["enable_static"]
       /\ loaded["enable_shared"] <=> (system = RawSystems.windows)
  /\ cmake_args # <<>> =>
       /\ \A k \in BoolKeys :
            <<FlagOf[k], IF current_config[k] THEN "ON" ELSE "OFF">>
              \in Range(cmake_args)
       /\ \A k \in BoolKeys :
            <<FlagOf[k], IF current_config[k] THEN "OFF" ELSE "ON">>
              \notin Range(cmake_args)
       /\ (Defaulted /\ args.preset = "none" /\ system = RawSystems.linux
           /\ machine = RawMachines.x86_64)
            => {<<"ENABLE_SSE", "ON">>, <<"ENABLE_SSE2", "ON">>,
                <<"ENABLE_NEON", "OFF">>} \subseteq Range(cmake_args)

\* C10 witness: `configure` on a Linux x86_64 host with no snapshot and no
\* preset has run cmake successfully.
C10_Witness ==
  /\ Defaulted
  /\ system = RawSystems.linux
  /\ machine = RawMachines.x86_64
  /\ args.action = "configure"
  /\ args.preset = "none"
  /\ cmake_args # <<>>
  /\ pc = "done"
  /\ exitCode = 0


\* the configuration held after the i-th call of apply_preset
ConfigAfter(i) ==
  IF i < Len(presetlog) THEN presetlog[i + 1].before ELSE current_config

\* C11: apply_preset with a known name is a pure overlay: the preset's keys
\* take the preset's values, every other key keeps its value, no key is
\* removed, the configuration passed in is not mutated, and a second
\* application of the same preset gives the same configuration; with a name
\* outside {debug, release, minimal, android, ios} it fails with the
\* unknown-preset error and the current configuration stays as it was.
C11_PresetOverlay ==
  \A i \in 1..Len(presetlog) :
    LET e == presetlog[i]
    IN  IF e.name \in {"debug", "release", "minimal", "android", "ios"}
        THEN /\ e.error = "none"
             /\ \A k \in DOMAIN presets[e.name] :
                  k \in DOMAIN e.result /\ e.result[k] = presets[e.name][k]
             /\ \A k \in (DOMAIN e.before) \ (DOMAIN presets[e.name]) :
                  k \in DOMAIN e.result /\ e.result[k] = e.before[k]
             /\ DOMAIN e.result
                  = (DOMAIN e.before) \cup (DOMAIN presets[e.name])
             /\ e.current = e.before
             /\ (i < Len(presetlog) /\ presetlog[i + 1].name = e.name)
                  => presetlog[i + 1].result = e.result
        ELSE /\ e.error = "ValueError"
             /\ e.current = e.before
             /\ ConfigAfter(i) = e.before

\* C11 witness: a preset that changes the configuration was applied twice in
\* a row, then an unknown name was refused.
C11_Witness ==
  /\ Len(presetlog) = 3
  /\ presetlog[1].name = "android"
  /\ presetlog[1].result # presetlog[1].before
  /\ presetlog[2].name = "android"
  /\ presetlog[3].name = "bogus"
  /\ presetlog[3].error = "ValueError"


\* what a line typed at the build-type prompt asks for
BuildTypeAsked(raw) ==
  CASE raw = <<>> -> "keep"
    [] raw = <<"1">> -> "Debug"
    [] raw = <<"2">> -> "Release"
    [] raw = <<" ", "3">> -> "RelWithDebInfo"
    [] raw = <<"4", " ">> -> "MinSizeRel"
    [] OTHER -> "invalid"

\* what a line typed at a yes/no prompt says
YesNoAsked(raw) ==
  CASE raw \in {<<"y">>, <<"Y", "E", "S">>} -> "yes"
    [] raw \in {<<"n">>, <<" ", "N", "o">>} -> "no"
    [] OTHER -> "other"

AskedKeys == {Questions[i] : i \in 1..Len(Questions)}

\* the wizard has not been stopped by an exception
Running == exc = "none"

\* C12: the wizard goes through its questions in order: the build-type
\* question is asked again until the line is empty (keep) or one of 1-4 (set
\* Debug, Release, RelWithDebInfo, MinSizeRel); a yes/no question changes its
\* own key only, to true on y/yes, to false on n/no, and not at all on an empty
\* or any other line; keys that are not asked about keep their value; the
\* result is handed to save_config unless the last answer is n/no, and a
\* write that succeeds leaves exactly that result in the file (one that
\* fails leaves no snapshot that parses; an answer of n/no leaves the file
\* alone).
C12_WizardTransform ==
  /\ DOMAIN wiz = DOMAIN current_config
  /\ \A k \in (DOMAIN wiz) \ (AskedKeys \cup {"build_type"}) :
       wiz[k] = current_config[k]
  /\ asked # <<>> =>
       /\ asked.q = "build_type" =>
            LET want == BuildTypeAsked(asked.raw)
            IN  /\ want \in {"invalid", "keep"} => wiz = asked.before
                /\ want \notin {"invalid", "keep"} =>
                     wiz = [asked.before EXCEPT !["build_type"] = want]
                /\ Running =>
                     IF want = "invalid" THEN pc = "wiz_bt"
                     ELSE pc = "wiz_q" /\ qi = 1
       /\ asked.q \in AskedKeys =>
            LET said == YesNoAsked(asked.raw)
            IN  /\ said = "yes" => wiz[asked.q] = TRUE
                /\ said = "no" => wiz[asked.q] = FALSE
                /\ said = "other" => wiz[asked.q] = asked.before[asked.q]
                /\ \A k \in (DOMAIN wiz) \ {asked.q} : wiz[k] = asked.before[k]
                /\ Running =>
                     /\ pc \in {"wiz_q", "wiz_save"}
                     /\ asked.q = Questions[IF pc = "wiz_q" THEN qi - 1
                                            ELSE Len(Questions)]
       /\ asked.q = "save" =>
            /\ pc = "wiz_done"
            /\ wiz = asked.before
            /\ asked.saved = "skipped" <=> YesNoAsked(asked.raw) = "no"
            /\ asked.saved = "written" =>
                 file = [kind |-> "valid", content |-> wiz]
            /\ asked.saved = "skipped" => file.kind = "absent"
            /\ asked.saved = "IOError" => file.kind \in {"absent", "malformed"}
  /\ pc = "wiz_save" => (asked # <<>> /\ asked.q = Questions[Len(Questions)])
  /\ (pc = "wiz_q" /\ qi = 1) => (asked # <<>> /\ asked.q = "build_type")

\* C12 witness: an invalid build-type line was asked again, 3 was then taken,
\* the answers changed some flags, and an empty last line saved the result.
C12_Witness ==
  /\ pc = "wiz_done"
  /\ retries = 1
  /\ wiz["build_type"] = "RelWithDebInfo"
  /\ current_config["build_type"] = "Release"
  /\ wiz["enable_static"] = FALSE
  /\ wiz["enable_neon"] = TRUE
  /\ ~current_config["enable_neon"]
  /\ asked.q = "save"
  /\ asked.raw = <<>>
  /\ asked.saved = "written"
  /\ file.content = wiz

====
